---- MODULE Spec2Model ----
(***************************************************************************)
(* Model of the Mosa Tea batch pipeline:                                   *)
(*   data_cleansing.py               (codebook + anonymization run)        *)
(*   make_daily_revenue_weather_v1.py (revenue aggregation, weather, merge) *)
(*   summarize_revenue_weather.py    (rain / no-rain summary)              *)
(* Strings that are sorted, formatted or case-folded are sequences of      *)
(* code points; cell values are typed records so that str() is computed.   *)
(***************************************************************************)
EXTENDS Integers, Sequences, FiniteSets, TLC

VARIABLES
    \* Codebook Generator exercised on its own
    cb_pc, cb_series, cb_prefix, cb_out, cb_series2, cb_out2,
    \* data_cleansing.main: position, loop index, df_clean, files, error
    an_pc, an_i, an_df, an_disk, an_disk0, an_err,
    \* normalize_weather_columns exercised on its own
    nw_pc, nw_cols, nw_out,
    \* make_daily_revenue_weather_v1.main: position, raised error, files,
    \* the daily, weather and merged tables
    mg_pc, mg_at, mg_err, mg_disk, mg_disk0, mg_daily, mg_weather, mg_merged,
    \* summarize_revenue_weather: position, loaded table, rain_summary result
    sm_pc, sm_df, sm_out

cbVars == <<cb_pc, cb_series, cb_prefix, cb_out, cb_series2, cb_out2>>
anVars == <<an_pc, an_i, an_df, an_disk, an_disk0, an_err>>
nwVars == <<nw_pc, nw_cols, nw_out>>
mgVars == <<mg_pc, mg_at, mg_err, mg_disk, mg_disk0, mg_daily, mg_weather, mg_merged>>
smVars == <<sm_pc, sm_df, sm_out>>
vars == <<cbVars, anVars, nwVars, mgVars, smVars>>

----------------------------------------------------------------------------
(* Bounds                                                                  *)
MaxLen == 3
MaxRows == 2
MaxCols == 4
MaxOrders == 3
MaxWeather == 2
MaxStations == 2

----------------------------------------------------------------------------
(* Generic helpers                                                         *)
Range(s) == {s[i] : i \in DOMAIN s}

SeqsUpTo(S, n) == UNION {[1..k -> S] : k \in 0..n}

(* Python str ordering: lexicographic by code point, shorter prefix first. *)
StrLess(a, b) ==
    \E k \in 0..Len(a) :
        /\ k <= Len(b)
        /\ \A i \in 1..k : a[i] = b[i]
        /\ IF k = Len(a) THEN Len(b) > k
                         ELSE k < Len(b) /\ a[k + 1] < b[k + 1]

(* Cell values of a pandas object/numeric column. *)
Null == [t |-> "null", s |-> <<>>, n |-> 0]
StrV(s) == [t |-> "str", s |-> s, n |-> 0]
IntV(n) == [t |-> "int", s |-> <<>>, n |-> n]
FloatV(n) == [t |-> "float", s |-> <<>>, n |-> n]

isna(v) == v.t = "null"

(* Decimal digits of a natural number, as code points ('0' is 48). *)
RECURSIVE Decimal(_)
Decimal(n) == IF n < 10 THEN <<48 + n>> ELSE Decimal(n \div 10) \o <<48 + (n % 10)>>

(* str(x) as astype(str) applies it element by element:                    *)
(* a str is itself, an int its decimal form, an integral float "<d>.0",    *)
(* and NaN is "nan".                                                       *)
str(v) ==
    CASE v.t = "str"   -> v.s
      [] v.t = "int"   -> Decimal(v.n)
      [] v.t = "float" -> Decimal(v.n) \o <<46, 48>>
      [] v.t = "null"  -> <<110, 97, 110>>

dropna(series) == SelectSeq(series, LAMBDA v : ~isna(v))

astype_str(series) == [i \in DOMAIN series |-> str(series[i])]

(* Series.unique(): distinct values in order of first appearance. *)
RECURSIVE unique(_)
unique(s) ==
    IF s = <<>> THEN <<>>
    ELSE LET init == unique(SubSeq(s, 1, Len(s) - 1))
             x == s[Len(s)]
         IN IF x \in Range(init) THEN init ELSE Append(init, x)

(* sorted(): stable ascending sort under StrLess. *)
RECURSIVE InsertSorted(_, _)
InsertSorted(x, s) ==
    IF s = <<>> THEN <<x>>
    ELSE IF StrLess(x, Head(s)) THEN <<x>> \o s
    ELSE <<Head(s)>> \o InsertSorted(x, Tail(s))

RECURSIVE sorted(_)
sorted(s) ==
    IF s = <<>> THEN <<>>
    ELSE InsertSorted(s[Len(s)], sorted(SubSeq(s, 1, Len(s) - 1)))

(* str.zfill(width): left-pad with '0'. *)
RECURSIVE zfill(_, _)
zfill(s, width) == IF Len(s) >= width THEN s ELSE zfill(<<48>> \o s, width)

(* A Python dict: a sequence of <<key, value>> items in insertion order.   *)
DictKeys(d) == {d[i][1] : i \in DOMAIN d}
DictHas(d, k) == k \in DictKeys(d)
DictLookup(d, k) == d[CHOOSE i \in DOMAIN d : d[i][1] = k][2]
DictSet(d, k, v) ==
    IF DictHas(d, k)
    THEN [i \in DOMAIN d |-> IF d[i][1] = k THEN <<k, v>> ELSE d[i]]
    ELSE Append(d, <<k, v>>)

(* {val: f"{prefix}{str(i+1).zfill(4)}" for i, val in enumerate(values)}   *)
RECURSIVE DictComp(_, _, _)
DictComp(values, prefix, upto) ==
    IF upto = 0 THEN <<>>
    ELSE DictSet(DictComp(values, prefix, upto - 1),
                 values[upto],
                 prefix \o zfill(Decimal(upto), 4))

make_codebook_unsorted(series, prefix) ==
    LET values == unique(astype_str(dropna(series)))
    IN DictComp(values, prefix, Len(values))

make_codebook_keepna(series, prefix) ==
    LET values == sorted(unique(astype_str(series)))
    IN DictComp(values, prefix, Len(values))

make_codebook(series, prefix) ==
    LET values == sorted(unique(astype_str(dropna(series))))
    IN DictComp(values, prefix, Len(values))

----------------------------------------------------------------------------
(* Codebook Generator: make_codebook applied to bounded inputs.            *)

MTI == <<77, 84, 73>>
MTM == <<77, 84, 77>>

(* "10" (str), 10 (int), "2" (str): two values with one string form, and a *)
(* pair whose lexicographic and numeric orders differ.                     *)
CbValues == {Null, StrV(<<49, 48>>), IntV(10), StrV(<<50>>)}
CbSeries == SeqsUpTo(CbValues, MaxLen)

CbIdle ==
    /\ cb_pc = "idle"
    /\ cb_series = <<>>
    /\ cb_prefix = <<>>
    /\ cb_out = <<>>
    /\ cb_series2 = <<>>
    /\ cb_out2 = <<>>

CbInit ==
    /\ cb_pc = "start"
    /\ cb_series \in CbSeries
    /\ cb_prefix \in {MTI, MTM}
    /\ cb_out = <<>>
    /\ cb_series2 = <<>>
    /\ cb_out2 = <<>>

CbCall ==
    /\ cb_pc = "start"
    /\ cb_out' = make_codebook(cb_series, cb_prefix)
    /\ cb_pc' = "called"
    /\ UNCHANGED <<cb_series, cb_prefix, cb_series2, cb_out2>>
    /\ UNCHANGED <<anVars, nwVars, mgVars, smVars>>

CbCallOther ==
    /\ cb_pc = "called"
    /\ \E s2 \in CbSeries :
        /\ cb_series2' = s2
        /\ cb_out2' = make_codebook(s2, cb_prefix)
    /\ cb_pc' = "compared"
    /\ UNCHANGED <<cb_series, cb_prefix, cb_out>>
    /\ UNCHANGED <<anVars, nwVars, mgVars, smVars>>

CbNext == CbCall \/ CbCallOther

(* The distinct non-null stringified values of a series. *)
StrSet(series) == {str(series[i]) : i \in {j \in DOMAIN series : ~isna(series[j])}}

\* C1: two inputs holding the same distinct non-null stringified values
\* (any order, duplicates, nulls) get the identical mapping from make_codebook.
C1_OrderIndependent ==
    (cb_pc = "compared" /\ StrSet(cb_series) = StrSet(cb_series2))
        => cb_out = cb_out2

C1_Witness ==
    /\ cb_pc = "compared"
    /\ StrSet(cb_series) = StrSet(cb_series2)
    /\ cb_series # cb_series2
    /\ Len(cb_out) = 2
    /\ \E i \in DOMAIN cb_series : isna(cb_series[i])
    /\ Len(cb_series2) = 3 /\ cb_series2[1] = cb_series2[3]

\* C2: the mapping's IDs are pairwise distinct and it has one entry per
\* distinct non-null stringified input value (none for empty/all-null input).
C2_Unique ==
    cb_pc \in {"called", "compared"} =>
        /\ Len(cb_out) = Cardinality(StrSet(cb_series))
        /\ DictKeys(cb_out) = StrSet(cb_series)
        /\ \A i, j \in DOMAIN cb_out : i # j => cb_out[i][2] # cb_out[j][2]

C2_Witness ==
    /\ cb_pc = "called"
    /\ Len(cb_series) = 3
    /\ Cardinality(Range(cb_series)) = 3
    /\ Len(cb_out) = 1

C2_WitnessEmpty ==
    /\ cb_pc = "called"
    /\ cb_series = <<Null, Null>>
    /\ cb_out = <<>>
----------------------------------------------------------------------------
(* Tabular helpers: CSV files on disk and pandas DataFrames.               *)

(* A file: absent, or a header line and rows of cell texts. *)
Absent == [exists |-> FALSE, header |-> <<>>, rows |-> <<>>]
Stale == [exists |-> TRUE, header |-> <<"stale">>, rows |-> <<>>]
Truncated == [exists |-> TRUE, header |-> <<>>, rows |-> <<>>]
CsvFile(header, rows) == [exists |-> TRUE, header |-> header, rows |-> rows]

(* What a write that raised can leave behind: nothing touched, or a file   *)
(* opened for writing and cut short.                                       *)
FailedWrite(old) == {old, Truncated}

IndexOf(seq, x) == CHOOSE i \in DOMAIN seq : seq[i] = x

(* Cell texts read_csv takes for missing: "", "nan", "NA". *)
NaTexts == {<<>>, <<110, 97, 110>>, <<78, 65>>}

IsDigits(t) == t # <<>> /\ \A i \in DOMAIN t : t[i] \in 48..57

RECURSIVE ParseInt(_)
ParseInt(t) ==
    IF t = <<>> THEN 0
    ELSE 10 * ParseInt(SubSeq(t, 1, Len(t) - 1)) + (t[Len(t)] - 48)

(* read_csv's per-column inference: NA texts become NaN; a column whose    *)
(* other cells are all integers is int64, or float64 once it holds a NaN;  *)
(* any other column keeps its texts as str objects.                        *)
InferColumn(texts) ==
    LET present == {i \in DOMAIN texts : texts[i] \notin NaTexts}
    IN IF \A i \in present : IsDigits(texts[i])
       THEN IF present = DOMAIN texts
            THEN [i \in DOMAIN texts |-> IntV(ParseInt(texts[i]))]
            ELSE [i \in DOMAIN texts |->
                    IF i \in present THEN FloatV(ParseInt(texts[i])) ELSE Null]
       ELSE [i \in DOMAIN texts |->
                IF i \in present THEN StrV(texts[i]) ELSE Null]

read_csv(file) ==
    [columns |-> file.header,
     data |-> [c \in Range(file.header) |->
                 InferColumn([i \in DOMAIN file.rows |->
                                file.rows[i][IndexOf(file.header, c)]])]]

NRows(df) == IF df.columns = <<>> THEN 0 ELSE Len(df.data[df.columns[1]])

(* to_csv(index=False): NaN is written as the empty cell. *)
CellText(v) == IF isna(v) THEN <<>> ELSE str(v)

to_csv(df) ==
    CsvFile(df.columns,
            [i \in 1..NRows(df) |->
                [j \in DOMAIN df.columns |-> CellText(df.data[df.columns[j]][i])]])

(* DataFrame.drop(columns=labels): KeyError when a label is not a column. *)
DropRaises(df, labels) == ~(Range(labels) \subseteq Range(df.columns))

drop(df, labels) ==
    [columns |-> SelectSeq(df.columns, LAMBDA c : c \notin Range(labels)),
     data |-> [c \in Range(df.columns) \ Range(labels) |-> df.data[c]]]

(* df[col] = values: replaces the column in place or appends it. *)
SetColumn(df, col, values) ==
    [columns |-> IF col \in Range(df.columns) THEN df.columns
                 ELSE Append(df.columns, col),
     data |-> [c \in Range(df.columns) \cup {col} |->
                 IF c = col THEN values ELSE df.data[c]]]

(* Series.map(dict): the dict's value, NaN for a key it does not hold. *)
MapDict(keys, d) ==
    [i \in DOMAIN keys |->
        IF DictHas(d, keys[i]) THEN StrV(DictLookup(d, keys[i])) ELSE Null]

----------------------------------------------------------------------------
(* data_cleansing.py: the anonymization run.                               *)

pii_columns ==
    <<"Order Name", "Recipient Name", "Recipient Email", "Recipient Phone",
      "Recipient Address", "Recipient Address 2", "Recipient Postal Code",
      "Recipient City", "Recipient Region", "Recipient Country",
      "Fulfillment Notes">>

(* source column, generated ID column, prefix, mapping file; dict order. *)
SENSITIVE_CATEGORICALS ==
    <<[source |-> "Item Name", id |-> "Item ID", prefix |-> MTI,
       path |-> "item_mapping_path"],
      [source |-> "Item Modifiers", id |-> "Modifier ID", prefix |-> MTM,
       path |-> "modifier_mapping_path"]>>

AnPaths == {"raw_path", "clean_path", "item_mapping_path", "modifier_mapping_path"}

cols_to_drop_unfiltered(df) == pii_columns

cols_to_drop(df) == SelectSeq(pii_columns, LAMBDA c : c \in Range(df.columns))

IdColumn_nostr(series, codebook) ==
    MapDict([i \in DOMAIN series |-> series[i].s], codebook)

(* df_clean[source_col].astype(str).map(codebook) *)
IdColumn(series, codebook) == MapDict(astype_str(series), codebook)

save_mapping(mapping, left_name, right_name) ==
    CsvFile(<<left_name, right_name>>,
            [i \in DOMAIN mapping |-> <<mapping[i][1], mapping[i][2]>>])

AnIdle ==
    /\ an_pc = "idle"
    /\ an_i = 0
    /\ an_df = [columns |-> <<>>, data |-> <<>>]
    /\ an_disk = [p \in AnPaths |-> Absent]
    /\ an_disk0 = [p \in AnPaths |-> Absent]
    /\ an_err = "none"

(* Raw exports: column order of the export, PII and sensitive columns      *)
(* present or not, Order Total always there.                               *)
RawColumnOrder ==
    <<"Order Name", "Order Total", "Item Name", "Recipient Name",
      "Recipient Email", "Recipient Phone", "Item Modifiers",
      "Recipient Address", "Recipient Address 2", "Recipient Postal Code",
      "Recipient City", "Recipient Region", "Recipient Country",
      "Fulfillment Notes">>

SensitiveNames == {SENSITIVE_CATEGORICALS[k].source : k \in DOMAIN SENSITIVE_CATEGORICALS}

(* "", "nan", "10", "L" *)
SensitiveTexts == {<<>>, <<110, 97, 110>>, <<49, 48>>, <<76>>}

RawFile(present, n, cells) ==
    LET header == SelectSeq(RawColumnOrder,
                            LAMBDA c : c = "Order Total" \/ c \in present)
    IN CsvFile(header,
               [i \in 1..n |->
                  [j \in DOMAIN header |->
                     IF header[j] \in SensitiveNames THEN cells[header[j]][i]
                     ELSE IF header[j] = "Order Total" THEN <<53>>
                     ELSE <<120>>]])

AnStart(raw, old) ==
    /\ an_pc = "start"
    /\ an_i = 1
    /\ an_df = [columns |-> <<>>, data |-> <<>>]
    /\ an_disk = [p \in AnPaths |-> IF p = "raw_path" THEN raw ELSE old]
    /\ an_disk0 = an_disk
    /\ an_err = "none"

(* The PII sets under which every content of the sensitive columns is tried. *)
FewPii == {{}, {"Order Name", "Recipient Email"}}

(* Every set of PII and sensitive columns with one row; under FewPii every *)
(* content of up to MaxRows rows and both states of the output files.      *)
AnInitOf(piiSets) ==
    \E pii \in piiSets,
       sens \in SUBSET SensitiveNames,
       n \in 0..MaxRows,
       old \in {Absent, Stale} :
        \E cells \in (IF pii \in FewPii
                      THEN [sens -> [1..n -> SensitiveTexts]]
                      ELSE IF n = 1 /\ old = Absent
                           THEN {[c \in sens |-> <<<<76>>>>]}
                           ELSE {}) :
            AnStart(RawFile(pii \cup sens, n, cells), old)

AnInit == AnInitOf(SUBSET Range(pii_columns))

AnFail(err) ==
    /\ an_pc' = "failed"
    /\ an_err' = err

(* Lines 67-88: read the raw file, drop the PII columns, make mapping_dir. *)
AnLoad ==
    /\ an_pc = "start"
    /\ LET df == read_csv(an_disk["raw_path"])
           labels == cols_to_drop(df)
       IN IF DropRaises(df, labels)
          THEN AnFail("KeyError") /\ UNCHANGED an_df
          ELSE /\ an_df' = drop(df, labels)
               /\ an_pc' = "loop"
               /\ UNCHANGED an_err
    /\ UNCHANGED <<an_i, an_disk, an_disk0>>
    /\ UNCHANGED <<cbVars, nwVars, mgVars, smVars>>

(* read_csv or mkdir raises an I/O error. *)
AnLoadFail ==
    /\ an_pc = "start"
    /\ AnFail("IOError")
    /\ UNCHANGED <<an_i, an_df, an_disk, an_disk0>>
    /\ UNCHANGED <<cbVars, nwVars, mgVars, smVars>>

(* Lines 91-93: a configured column the input lacks is skipped. *)
AnSkipColumn ==
    /\ an_pc = "loop"
    /\ an_i \in DOMAIN SENSITIVE_CATEGORICALS
    /\ SENSITIVE_CATEGORICALS[an_i].source \notin Range(an_df.columns)
    /\ an_i' = an_i + 1
    /\ UNCHANGED <<an_pc, an_df, an_disk, an_disk0, an_err>>
    /\ UNCHANGED <<cbVars, nwVars, mgVars, smVars>>

(* Lines 95-114: codebook, ID column, mapping file, drop of the original. *)
AnAnonymizeColumn ==
    /\ an_pc = "loop"
    /\ an_i \in DOMAIN SENSITIVE_CATEGORICALS
    /\ LET cfg == SENSITIVE_CATEGORICALS[an_i]
       IN /\ cfg.source \in Range(an_df.columns)
          /\ LET codebook == make_codebook(an_df.data[cfg.source], cfg.prefix)
                 with_id == SetColumn(an_df, cfg.id,
                                      IdColumn(an_df.data[cfg.source], codebook))
             IN \/ /\ an_disk' = [an_disk EXCEPT ![cfg.path] =
                                     save_mapping(codebook, cfg.source, cfg.id)]
                   /\ IF DropRaises(with_id, <<cfg.source>>)
                      THEN AnFail("KeyError") /\ an_df' = with_id /\ UNCHANGED an_i
                      ELSE /\ an_df' = drop(with_id, <<cfg.source>>)
                           /\ an_i' = an_i + 1
                           /\ UNCHANGED <<an_pc, an_err>>
                \/ /\ \E f \in FailedWrite(an_disk[cfg.path]) :
                          an_disk' = [an_disk EXCEPT ![cfg.path] = f]
                   /\ an_df' = with_id
                   /\ AnFail("IOError")
                   /\ UNCHANGED an_i
    /\ UNCHANGED an_disk0
    /\ UNCHANGED <<cbVars, nwVars, mgVars, smVars>>

(* Lines 123-124: the anonymized CSV is written last. *)
AnWriteClean ==
    /\ an_pc = "loop"
    /\ an_i = Len(SENSITIVE_CATEGORICALS) + 1
    /\ an_disk' = [an_disk EXCEPT !["clean_path"] = to_csv(an_df)]
    /\ an_pc' = "done"
    /\ UNCHANGED <<an_i, an_df, an_disk0, an_err>>
    /\ UNCHANGED <<cbVars, nwVars, mgVars, smVars>>

AnWriteCleanFail ==
    /\ an_pc = "loop"
    /\ an_i = Len(SENSITIVE_CATEGORICALS) + 1
    /\ \E f \in FailedWrite(an_disk["clean_path"]) :
          an_disk' = [an_disk EXCEPT !["clean_path"] = f]
    /\ AnFail("IOError")
    /\ UNCHANGED <<an_i, an_df, an_disk0>>
    /\ UNCHANGED <<cbVars, nwVars, mgVars, smVars>>

AnNext ==
    \/ AnLoad
    \/ AnLoadFail
    \/ AnSkipColumn
    \/ AnAnonymizeColumn
    \/ AnWriteClean
    \/ AnWriteCleanFail

(* The raw table as the run loaded it, and the files the run left. *)
AnRaw == read_csv(an_disk0["raw_path"])
AnClean == an_disk["clean_path"]
AnCleanCell(i, col) == AnClean.rows[i][IndexOf(AnClean.header, col)]

(* The IDs a mapping file pairs with an original value's text. *)
MappedIds(file, text) == {file.rows[k][2] : k \in {r \in DOMAIN file.rows : file.rows[r][1] = text}}

\* C3: after a completed anonymization run, for each configured sensitive
\* column of the input: the column is gone from the anonymized file, each row
\* whose original value was non-null carries exactly the ID the saved mapping
\* file pairs with the value's string form, and each null row a null ID.
C3_ReferentialCompleteness ==
    an_pc = "done" =>
        \A k \in DOMAIN SENSITIVE_CATEGORICALS :
            LET cfg == SENSITIVE_CATEGORICALS[k]
            IN cfg.source \in Range(AnRaw.columns) =>
                /\ cfg.source \notin Range(AnClean.header)
                /\ cfg.id \in Range(AnClean.header)
                /\ Len(AnClean.rows) = NRows(AnRaw)
                /\ \A i \in 1..NRows(AnRaw) :
                     LET orig == AnRaw.data[cfg.source][i]
                     IN IF isna(orig)
                        THEN AnCleanCell(i, cfg.id) = <<>>
                        ELSE /\ AnCleanCell(i, cfg.id) # <<>>
                             /\ MappedIds(an_disk[cfg.path], str(orig))
                                    = {AnCleanCell(i, cfg.id)}

C3_Witness ==
    /\ an_pc = "done"
    /\ "Item Name" \in Range(AnRaw.columns)
    /\ NRows(AnRaw) = 2
    /\ isna(AnRaw.data["Item Name"][1])
    /\ AnRaw.data["Item Name"][2].t = "float"
    /\ AnCleanCell(1, "Item ID") = <<>>
    /\ AnCleanCell(2, "Item ID") = MTI \o <<48, 48, 48, 49>>

\* C4: whatever PII and sensitive columns the input holds, the run does not
\* fail on an absent PII column and no PII column name is in the output.
C4_PiiRemoved ==
    /\ an_err # "KeyError"
    /\ an_pc = "done" =>
         /\ AnClean.exists
         /\ Range(AnClean.header) \cap Range(pii_columns) = {}

C4_Witness ==
    /\ an_pc = "done"
    /\ Cardinality(Range(AnRaw.columns) \cap Range(pii_columns)) = 5
    /\ "Order Name" \notin Range(AnRaw.columns)
    /\ "Item Name" \in Range(AnRaw.columns)
    /\ AnClean.header = <<"Order Total", "Item ID">>
----------------------------------------------------------------------------
(* make_daily_revenue_weather_v1.py: weather column normalization.         *)
(* Column names are code point sequences so that lower() is computed.      *)

n_date == <<100, 97, 116, 101>>
n_day == <<100, 97, 121>>
n_obs_date == <<111, 98, 115, 95, 100, 97, 116, 101>>
n_temp == <<116, 101, 109, 112>>
n_temperature == <<116, 101, 109, 112, 101, 114, 97, 116, 117, 114, 101>>
n_temp_f == <<116, 101, 109, 112, 95, 102>>
n_tavg == <<116, 97, 118, 103>>
n_rain == <<114, 97, 105, 110>>
n_precip == <<112, 114, 101, 99, 105, 112>>
n_precipitation == <<112, 114, 101, 99, 105, 112, 105, 116, 97, 116, 105, 111, 110>>
n_rainfall == <<114, 97, 105, 110, 102, 97, 108, 108>>
n_prcp == <<112, 114, 99, 112>>

(* str.lower() / str.upper() over ASCII letters. *)
lower(name) == [i \in DOMAIN name |-> IF name[i] \in 65..90 THEN name[i] + 32 ELSE name[i]]
upper(name) == [i \in DOMAIN name |-> IF name[i] \in 97..122 THEN name[i] - 32 ELSE name[i]]

(* target -> aliases in priority order; dict order date, temp, rain. *)
WEATHER_COLUMN_ALIASES ==
    <<[target |-> n_date, aliases |-> <<n_date, n_day, n_obs_date>>],
      [target |-> n_temp, aliases |-> <<n_temp, n_temperature, n_temp_f, n_tavg>>],
      [target |-> n_rain,
       aliases |-> <<n_rain, n_precip, n_precipitation, n_rainfall, n_prcp>>]>>

WeatherTargets == <<n_date, n_temp, n_rain>>

(* {col.lower(): col for col in df.columns}: a later column overwrites. *)
RECURSIVE LowerCols(_, _)
LowerCols(columns, upto) ==
    IF upto = 0 THEN <<>>
    ELSE DictSet(LowerCols(columns, upto - 1), lower(columns[upto]), columns[upto])

(* The first alias of the list that lower_cols holds: its position, or 0. *)
FirstAlias(aliases, lower_cols) ==
    IF \E a \in DOMAIN aliases : DictHas(lower_cols, aliases[a])
    THEN CHOOSE a \in DOMAIN aliases :
            /\ DictHas(lower_cols, aliases[a])
            /\ \A b \in 1..(a - 1) : ~DictHas(lower_cols, aliases[b])
    ELSE 0

(* The loop of lines 35-39 building `renamed`. *)
RECURSIVE Renamed(_, _)
Renamed(lower_cols, upto) ==
    IF upto = 0 THEN <<>>
    ELSE LET entry == WEATHER_COLUMN_ALIASES[upto]
             a == FirstAlias(entry.aliases, lower_cols)
             sofar == Renamed(lower_cols, upto - 1)
         IN IF a = 0 THEN sofar
            ELSE DictSet(sofar, DictLookup(lower_cols, entry.aliases[a]), entry.target)

(* df.rename(columns=renamed) on the column labels. *)
rename(columns, renamed) ==
    [j \in DOMAIN columns |->
        IF DictHas(renamed, columns[j]) THEN DictLookup(renamed, columns[j])
        ELSE columns[j]]

(* df[labels]: every column carrying a requested label, label by label;   *)
(* each selected column is <<label, position in the input table>>.         *)
RECURSIVE SelectColumns(_, _, _)
SelectColumns(columns, labels, upto) ==
    IF upto = 0 THEN <<>>
    ELSE SelectColumns(columns, labels, upto - 1)
         \o [k \in 1..Cardinality({j \in DOMAIN columns : columns[j] = labels[upto]}) |->
               <<labels[upto],
                 CHOOSE j \in DOMAIN columns :
                    /\ columns[j] = labels[upto]
                    /\ Cardinality({h \in 1..j : columns[h] = labels[upto]}) = k>>]

(* Result: raised or not, the targets named in the error, the returned     *)
(* table's columns.                                                        *)
normalize_weather_columns(columns) ==
    LET lower_cols == LowerCols(columns, Len(columns))
        renamed == Renamed(lower_cols, Len(WEATHER_COLUMN_ALIASES))
        cols == rename(columns, renamed)
        missing == SelectSeq(WeatherTargets, LAMBDA t : t \notin Range(cols))
    IN IF missing # <<>>
       THEN [raised |-> TRUE, missing |-> missing, out |-> <<>>]
       ELSE [raised |-> FALSE, missing |-> <<>>,
             out |-> SelectColumns(cols, WeatherTargets, Len(WeatherTargets))]

(* Input headers: distinct names (read_csv renames exact duplicates),      *)
(* among them case variants and several aliases of one target.             *)
NwNames ==
    {n_date, upper(n_date), n_day, n_temp, upper(n_temp), n_tavg,
     n_rain, n_prcp, <<115, 116, 110>>}

NwHeaders ==
    {h \in SeqsUpTo(NwNames, MaxCols) : \A i, j \in DOMAIN h : i # j => h[i] # h[j]}

NwIdle ==
    /\ nw_pc = "idle"
    /\ nw_cols = <<>>
    /\ nw_out = [raised |-> FALSE, missing |-> <<>>, out |-> <<>>]

NwInit ==
    /\ nw_pc = "start"
    /\ nw_cols \in NwHeaders
    /\ nw_out = [raised |-> FALSE, missing |-> <<>>, out |-> <<>>]

NwCall ==
    /\ nw_pc = "start"
    /\ nw_out' = normalize_weather_columns(nw_cols)
    /\ nw_pc' = IF nw_out'.raised THEN "raised" ELSE "returned"
    /\ UNCHANGED nw_cols
    /\ UNCHANGED <<cbVars, anVars, mgVars, smVars>>

NwNext == NwCall

(* The targets none of whose aliases names an input column, ignoring case. *)
NwAliasPresent(entry, columns) ==
    \E a \in DOMAIN entry.aliases, j \in DOMAIN columns :
        lower(columns[j]) = entry.aliases[a]

NwUnmatched(columns) ==
    SelectSeq(WeatherTargets,
              LAMBDA t : \E k \in DOMAIN WEATHER_COLUMN_ALIASES :
                            /\ WEATHER_COLUMN_ALIASES[k].target = t
                            /\ ~NwAliasPresent(WEATHER_COLUMN_ALIASES[k], columns))

(* Column j is one the first present alias of target k matches. *)
NwFirstMatch(columns, k, j) ==
    LET aliases == WEATHER_COLUMN_ALIASES[k].aliases
    IN \E a \in DOMAIN aliases :
        /\ lower(columns[j]) = aliases[a]
        /\ \A b \in 1..(a - 1), h \in DOMAIN columns : lower(columns[h]) # aliases[b]

\* C9: for every set of input column names, normalize_weather_columns either
\* returns exactly the three columns date, temp, rain, each the input column
\* matched ignoring case by the first alias of its priority list, or raises
\* naming exactly the targets with no alias present.
C9_ExactlyThreeOrMissing ==
    nw_pc \in {"raised", "returned"} =>
        IF NwUnmatched(nw_cols) = <<>>
        THEN /\ ~nw_out.raised
             /\ Len(nw_out.out) = 3
             /\ \A k \in 1..3 :
                  /\ nw_out.out[k][1] = WeatherTargets[k]
                  /\ NwFirstMatch(nw_cols, k, nw_out.out[k][2])
        ELSE /\ nw_out.raised
             /\ nw_out.missing = NwUnmatched(nw_cols)

----------------------------------------------------------------------------
(* make_daily_revenue_weather_v1.py: numbers, cells, dates.                *)

n_order_date == <<79, 114, 100, 101, 114, 32, 68, 97, 116, 101>>
n_order_total == <<79, 114, 100, 101, 114, 32, 84, 111, 116, 97, 108>>
n_revenue == <<114, 101, 118, 101, 110, 117, 101>>
n_weekday == <<119, 101, 101, 107, 100, 97, 121>>
n_weekday_name == <<119, 101, 101, 107, 100, 97, 121, 95, 110, 97, 109, 101>>
n_tmax == <<116, 109, 97, 120>>
n_tmin == <<116, 109, 105, 110>>

(* A float: NaN, or an exact fraction num/den (rounding is not modelled). *)
NaN == [nan |-> TRUE, num |-> 0, den |-> 1]
Num(n) == [nan |-> FALSE, num |-> n, den |-> 1]

RECURSIVE GCD(_, _)
GCD(a, b) == IF b = 0 THEN a ELSE GCD(b, a % b)

Abs(n) == IF n < 0 THEN -n ELSE n

Frac(n, d) ==
    LET g == GCD(Abs(n), d)
    IN [nan |-> FALSE, num |-> n \div g, den |-> d \div g]

FAdd(a, b) ==
    IF a.nan \/ b.nan THEN NaN
    ELSE Frac(a.num * b.den + b.num * a.den, a.den * b.den)

FDivInt(a, k) == IF a.nan THEN NaN ELSE Frac(a.num, a.den * k)

(* x > 0 on floats: False for NaN. *)
GreaterThanZero(a) == ~a.nan /\ a.num > 0

(* Sum / mean over a sequence of floats, skipping NaN as pandas does.      *)
RECURSIVE NanSum(_)
NanSum(xs) ==
    IF xs = <<>> THEN Num(0)
    ELSE LET rest == NanSum(SubSeq(xs, 1, Len(xs) - 1))
             x == xs[Len(xs)]
         IN IF x.nan THEN rest ELSE FAdd(rest, x)

NanMean(xs) ==
    LET present == SelectSeq(xs, LAMBDA x : ~x.nan)
    IN IF present = <<>> THEN NaN ELSE FDivInt(NanSum(present), Len(present))

(* A CSV cell: empty, a numeric literal, or any other text. *)
EmptyCell == [k |-> "empty", v |-> NaN, s |-> ""]
NumCell(v) == [k |-> "num", v |-> v, s |-> ""]
TextCell(s) == [k |-> "text", v |-> NaN, s |-> s]

(* pd.to_numeric(errors="coerce") *)
to_numeric(cell) == IF cell.k = "num" THEN cell.v ELSE NaN

(* A timestamp: NaT, or day of October 2025 and minute of the day. *)
NaT == [nat |-> TRUE, day |-> 0, minute |-> 0]
Timestamp(d, m) == [nat |-> FALSE, day |-> d, minute |-> m]

(* pd.to_datetime(errors="coerce") on the date texts of the inputs, each   *)
(* cell parsed on its own; any other text is NaT.                         *)
to_datetime(cell) ==
    IF cell.k # "text" THEN NaT
    ELSE CASE cell.s = "2025-10-01"       -> Timestamp(1, 0)
           [] cell.s = "2025-10-01 09:30" -> Timestamp(1, 570)
           [] cell.s = "2025-10-01 18:00" -> Timestamp(1, 1080)
           [] cell.s = "2025-10-02"       -> Timestamp(2, 0)
           [] cell.s = "2025-10-02 12:00" -> Timestamp(2, 720)
           [] cell.s = "2025-10-03"       -> Timestamp(3, 0)
           [] OTHER -> NaT

(* .dt.date: the calendar date, time of day discarded; NaT stays missing; *)
(* a date is its day number, 0 for missing.                                *)
dt_date(ts) == IF ts.nat THEN 0 ELSE ts.day

(* str(datetime.date) as to_csv writes it. *)
FormatDate(day) ==
    CASE day = 1 -> "2025-10-01"
      [] day = 2 -> "2025-10-02"
      [] day = 3 -> "2025-10-03"
      [] OTHER -> ""

DateCell(day) == IF day = 0 THEN EmptyCell ELSE TextCell(FormatDate(day))
FloatCell(v) == IF v.nan THEN EmptyCell ELSE NumCell(v)

(* .dt.weekday (Monday 0) and .dt.day_name() in October 2025. *)
weekday(day) == (day + 1) % 7
day_name(day) ==
    <<"Monday", "Tuesday", "Wednesday", "Thursday", "Friday", "Saturday",
      "Sunday">>[weekday(day) + 1]

Column(file, name) == [i \in DOMAIN file.rows |-> file.rows[i][IndexOf(file.header, name)]]

(* Ascending order of a set of day numbers. *)
RECURSIVE SortedDays(_)
SortedDays(days) ==
    IF days = {} THEN <<>>
    ELSE LET d == CHOOSE x \in days : \A y \in days : x <= y
         IN <<d>> \o SortedDays(days \ {d})

----------------------------------------------------------------------------
(* Revenue Aggregator: load_orders and the daily aggregation of main.      *)

(* Lines 51-65: [raised, rows]; rows keep only parsed dates and totals. *)
load_orders_keep_bad_totals(file) ==
    IF ~({n_order_date, n_order_total} \subseteq Range(file.header))
    THEN [raised |-> TRUE, rows |-> <<>>]
    ELSE LET dates == [i \in DOMAIN file.rows |-> to_datetime(Column(file, n_order_date)[i])]
             totals == [i \in DOMAIN file.rows |->
                          LET t == to_numeric(Column(file, n_order_total)[i])
                          IN IF t.nan THEN Num(0) ELSE t]
             kept == SelectSeq([i \in DOMAIN file.rows |-> i],
                               LAMBDA i : ~dates[i].nat)
         IN [raised |-> FALSE,
             rows |-> [k \in DOMAIN kept |->
                         [date |-> dates[kept[k]], total |-> totals[kept[k]]]]]

load_orders(file) ==
    IF ~({n_order_date, n_order_total} \subseteq Range(file.header))
    THEN [raised |-> TRUE, rows |-> <<>>]
    ELSE LET dates == [i \in DOMAIN file.rows |-> to_datetime(Column(file, n_order_date)[i])]
             totals == [i \in DOMAIN file.rows |-> to_numeric(Column(file, n_order_total)[i])]
             kept == SelectSeq([i \in DOMAIN file.rows |-> i],
                               LAMBDA i : ~(dates[i].nat \/ totals[i].nan))
         IN [raised |-> FALSE,
             rows |-> [k \in DOMAIN kept |->
                         [date |-> dates[kept[k]], total |-> totals[kept[k]]]]]

(* Lines 155-164: group by calendar date, sum, sort, weekday columns. *)
DailyRevenue(orders) ==
    LET days == SortedDays({dt_date(orders[i].date) : i \in DOMAIN orders})
    IN [k \in DOMAIN days |->
          [date |-> days[k],
           revenue |-> NanSum([j \in DOMAIN SelectSeq(orders, LAMBDA r : dt_date(r.date) = days[k]) |->
                                 SelectSeq(orders, LAMBDA r : dt_date(r.date) = days[k])[j].total]),
           weekday |-> weekday(days[k]),
           weekday_name |-> day_name(days[k])]]

----------------------------------------------------------------------------
(* Weather Normalizer: load_weather and prepare_weather_from_raw.          *)

WeatherError(e) == [err |-> e, rows |-> <<>>]

HasDuplicateDates(rows) ==
    \E i, j \in DOMAIN rows : i # j /\ rows[i].date = rows[j].date

(* The rows of lines 76-78 from the three selected columns. *)
WeatherRows(file, sel) ==
    [i \in DOMAIN file.rows |->
        [date |-> dt_date(to_datetime(file.rows[i][sel[1][2]])),
         temp |-> to_numeric(file.rows[i][sel[2][2]]),
         rain |-> to_numeric(file.rows[i][sel[3][2]])]]

load_weather_no_duplicate_check(file) ==
    IF ~file.exists THEN WeatherError("FileNotFoundError")
    ELSE LET norm == normalize_weather_columns(file.header)
         IN IF norm.raised THEN WeatherError("ValueError")
            ELSE IF Len(norm.out) # 3 THEN WeatherError("TypeError")
            ELSE LET rows == WeatherRows(file, norm.out)
                 IN IF \E i \in DOMAIN rows : rows[i].date = 0
                    THEN WeatherError("ValueError")
                    ELSE [err |-> "none", rows |-> rows]

(* Lines 68-85.  A table that normalize_weather_columns returns with a     *)
(* repeated label makes weather["date"] / weather["temp"] a DataFrame, on  *)
(* which to_datetime / to_numeric raise.                                   *)
load_weather(file) ==
    IF ~file.exists THEN WeatherError("FileNotFoundError")
    ELSE LET norm == normalize_weather_columns(file.header)
         IN IF norm.raised THEN WeatherError("ValueError")
            ELSE IF Len(norm.out) # 3 THEN WeatherError("TypeError")
            ELSE LET rows == WeatherRows(file, norm.out)
                 IN IF \E i \in DOMAIN rows : rows[i].date = 0
                    THEN WeatherError("ValueError")
                    ELSE IF HasDuplicateDates(rows)
                    THEN WeatherError("ValueError")
                    ELSE [err |-> "none", rows |-> rows]

(* str.strip() of spaces. *)
RECURSIVE strip(_)
strip(name) ==
    IF name = <<>> THEN name
    ELSE IF Head(name) = 32 THEN strip(Tail(name))
    ELSE IF name[Len(name)] = 32 THEN strip(SubSeq(name, 1, Len(name) - 1))
    ELSE name

WeatherHeader == <<n_date, n_temp, n_rain>>

WeatherFile(rows) ==
    CsvFile(WeatherHeader,
            [i \in DOMAIN rows |->
                <<DateCell(rows[i].date), FloatCell(rows[i].temp), FloatCell(rows[i].rain)>>])

(* Lines 118-124: one row per raw row with a parsed date. *)
RawWeatherRows(dates, temp, prcp) ==
    LET kept == SelectSeq([i \in DOMAIN dates |-> i], LAMBDA i : dates[i] # 0)
    IN [k \in DOMAIN kept |->
          [date |-> dates[kept[k]], temp |-> temp[kept[k]], rain |-> prcp[kept[k]]]]

FieldOf(rows, f) == [i \in DOMAIN rows |-> rows[i][f]]

GroupRows(rows, day) == SelectSeq(rows, LAMBDA r : r.date = day)

(* Line 127: groupby("date").mean(): one row per date, ascending. *)
groupby_date_mean(rows) ==
    LET days == SortedDays({rows[i].date : i \in DOMAIN rows})
    IN [k \in DOMAIN days |->
          [date |-> days[k],
           temp |-> NanMean(FieldOf(GroupRows(rows, days[k]), "temp")),
           rain |-> NanMean(FieldOf(GroupRows(rows, days[k]), "rain"))]]

(* Lines 89-127: [err, file]: the daily table to be written to out_path. *)
prepare_weather_from_raw(file) ==
    LET cols == [j \in DOMAIN file.header |-> upper(strip(file.header[j]))]
        Has(name) == upper(name) \in Range(cols)
        Twice(name) == Cardinality({j \in DOMAIN cols : cols[j] = upper(name)}) > 1
        Col(name) == [i \in DOMAIN file.rows |-> file.rows[i][IndexOf(cols, upper(name))]]
        Numeric(name) == [i \in DOMAIN file.rows |-> to_numeric(Col(name)[i])]
        Midpoint == [i \in DOMAIN file.rows |->
                        FDivInt(FAdd(Numeric(n_tmax)[i], Numeric(n_tmin)[i]), 2)]
    IN IF ~Has(n_date) \/ ~Has(n_prcp)
       THEN [err |-> "ValueError", file |-> Absent]
       ELSE IF \E name \in {n_date, n_prcp, n_tavg, n_tmax, n_tmin} : Twice(name)
       THEN [err |-> "TypeError", file |-> Absent]
       ELSE IF ~Has(n_tavg) /\ ~(Has(n_tmax) /\ Has(n_tmin))
       THEN [err |-> "ValueError", file |-> Absent]
       ELSE LET dates == [i \in DOMAIN file.rows |-> dt_date(to_datetime(Col(n_date)[i]))]
                temp == IF Has(n_tavg)
                        THEN IF Has(n_tmax) /\ Has(n_tmin)
                             THEN [i \in DOMAIN file.rows |->
                                     IF Numeric(n_tavg)[i].nan THEN Midpoint[i]
                                     ELSE Numeric(n_tavg)[i]]
                             ELSE Numeric(n_tavg)
                        ELSE Midpoint
            IN [err |-> "none",
                file |-> WeatherFile(
                    groupby_date_mean(RawWeatherRows(dates, temp, Numeric(n_prcp))))]

----------------------------------------------------------------------------
(* Merge & Report: the merge of main, and rain_summary.                    *)

MergedRow(d, temp, rain) ==
    [date |-> d.date, revenue |-> d.revenue, weekday |-> d.weekday,
     weekday_name |-> d.weekday_name, temp |-> temp, rain |-> rain]

RECURSIVE InnerMerge(_, _, _)
InnerMerge(daily, weather, upto) ==
    IF upto = 0 THEN <<>>
    ELSE LET d == daily[upto]
             matches == SelectSeq(weather, LAMBDA w : w.date = d.date)
         IN InnerMerge(daily, weather, upto - 1)
            \o [j \in DOMAIN matches |->
                  MergedRow(d, matches[j].temp, matches[j].rain)]

(* daily.merge(weather, on="date", how="left"): left order kept, one row   *)
(* per matching weather row, NaN weather for a date without a match.       *)
RECURSIVE LeftMerge(_, _, _)
LeftMerge(daily, weather, upto) ==
    IF upto = 0 THEN <<>>
    ELSE LET d == daily[upto]
             matches == SelectSeq(weather, LAMBDA w : w.date = d.date)
         IN LeftMerge(daily, weather, upto - 1)
            \o (IF matches = <<>> THEN <<MergedRow(d, NaN, NaN)>>
                ELSE [j \in DOMAIN matches |->
                        MergedRow(d, matches[j].temp, matches[j].rain)])

(* Lines 184-186: revenue-only output. *)
RevenueOnly(daily) == [i \in DOMAIN daily |-> MergedRow(daily[i], NaN, NaN)]

OutputHeader == <<n_date, n_revenue, n_weekday, n_weekday_name, n_temp, n_rain>>

OutputFile(merged) ==
    CsvFile(OutputHeader,
            [i \in DOMAIN merged |->
                <<DateCell(merged[i].date), FloatCell(merged[i].revenue),
                  NumCell(Num(merged[i].weekday)), TextCell(merged[i].weekday_name),
                  FloatCell(merged[i].temp), FloatCell(merged[i].rain)>>])

(* summarize_revenue_weather.load_data: read_csv(parse_dates=["date"]). *)
load_data(file) ==
    [i \in DOMAIN file.rows |->
        [date |-> to_datetime(Column(file, n_date)[i]),
         revenue |-> to_numeric(Column(file, n_revenue)[i]),
         weekday_name |-> Column(file, n_weekday_name)[i].s,
         temp |-> to_numeric(Column(file, n_temp)[i]),
         rain |-> to_numeric(Column(file, n_rain)[i])]]

(* (df["rain"] > 0).astype(int) *)
is_rain(row) == IF GreaterThanZero(row.rain) THEN 1 ELSE 0

(* Lines 34-38: group means in ascending key order, then the index is      *)
(* replaced by the two labels; a length mismatch raises ValueError.        *)
rain_summary(df) ==
    LET keys == SortedDays({is_rain(df[i]) : i \in DOMAIN df})
        means == [k \in DOMAIN keys |->
                    NanMean(FieldOf(SelectSeq(df, LAMBDA r : is_rain(r) = keys[k]),
                                    "revenue"))]
    IN IF Len(keys) # 2
       THEN [raised |-> TRUE, index |-> <<>>, values |-> <<>>]
       ELSE [raised |-> FALSE, index |-> <<"No Rain", "Rain">>, values |-> means]

----------------------------------------------------------------------------
(* make_daily_revenue_weather_v1.main followed by the summary script.      *)

MgPaths == {"ORDERS_PATH", "WEATHER_PATH", "RAW_WEATHER_PATH", "OUTPUT_PATH"}

MgStale == [exists |-> TRUE, header |-> <<n_obs_date>>, rows |-> <<>>]

NoSummary == [raised |-> FALSE, index |-> <<>>, values |-> <<>>]

MgIdle ==
    /\ mg_pc = "idle"
    /\ mg_at = "none"
    /\ mg_err = "none"
    /\ mg_disk = [p \in MgPaths |-> Absent]
    /\ mg_disk0 = [p \in MgPaths |-> Absent]
    /\ mg_daily = <<>>
    /\ mg_weather = <<>>
    /\ mg_merged = <<>>
    /\ sm_pc = "idle"
    /\ sm_df = <<>>
    /\ sm_out = NoSummary

(* Order files. *)
OrderDateCells ==
    {TextCell("2025-10-01 09:30"), TextCell("2025-10-01 18:00"),
     TextCell("2025-10-02"), TextCell("n/a")}
OrderTotalCells == {NumCell(Num(1000)), NumCell(Num(500)), TextCell("bad")}
OrderRows == {<<d, t>> : d \in OrderDateCells, t \in OrderTotalCells}

OrdersFile(rows) == CsvFile(<<n_order_date, n_order_total>>, rows)
OrdersFileNoTotal == CsvFile(<<n_order_date>>, <<<<TextCell("2025-10-02")>>>>)

RichOrders == {OrdersFile(rows) : rows \in SeqsUpTo(OrderRows, MaxOrders)} \cup {OrdersFileNoTotal}

FewOrders ==
    {OrdersFile(<<>>),
     OrdersFile(<<<<TextCell("2025-10-01 09:30"), NumCell(Num(1000))>>>>),
     OrdersFile(<<<<TextCell("2025-10-02 12:00"), NumCell(Num(500))>>,
                  <<TextCell("2025-10-01 09:30"), NumCell(Num(1000))>>,
                  <<TextCell("2025-10-03"), NumCell(Num(500))>>>>),
     OrdersFileNoTotal}

(* Daily weather files: canonical or aliased headers, rows that may share  *)
(* a date, carry a time of day, or not parse.                              *)
WeatherDateCells ==
    {TextCell("2025-10-01"), TextCell("2025-10-01 18:00"), TextCell("2025-10-02"),
     TextCell("n/a")}
WeatherRainCells == {NumCell(Num(0)), NumCell(Num(3)), EmptyCell}
WeatherInputRows == {<<d, NumCell(Num(70)), r>> : d \in WeatherDateCells, r \in WeatherRainCells}

WeatherFiles ==
    {CsvFile(h, rows) :
        h \in {WeatherHeader, <<upper(n_day), upper(n_tavg), n_prcp>>},
        rows \in SeqsUpTo(WeatherInputRows, MaxWeather)}
    \cup {CsvFile(<<n_date, n_temp>>, <<<<TextCell("2025-10-01"), NumCell(Num(70))>>>>),
          CsvFile(<<n_date, upper(n_date), n_temp, n_rain>>,
                  <<<<TextCell("2025-10-01"), TextCell("2025-10-01"),
                      NumCell(Num(70)), NumCell(Num(0))>>>>)}

(* Raw station files. *)
RawDateCells == {TextCell("2025-10-01"), TextCell("2025-10-02"), TextCell("n/a")}
RawPrcpCells == {NumCell(Num(0)), NumCell(Num(4))}
RawRowsMinMax ==
    {<<d, NumCell(Num(80)), NumCell(Num(60)), p>> :
        d \in RawDateCells, p \in RawPrcpCells \cup {EmptyCell}}
RawRowsAvg ==
    {<<d, a, NumCell(Num(80)), NumCell(Num(61)), p>> :
        d \in RawDateCells, a \in {EmptyCell, NumCell(Num(65))}, p \in RawPrcpCells}

RawFiles ==
    {CsvFile(<<upper(n_date), upper(n_tmax), upper(n_tmin), upper(n_prcp)>>, rows) :
        rows \in SeqsUpTo(RawRowsMinMax, MaxStations)}
    \cup {CsvFile(<<n_date, n_tavg, n_tmax, n_tmin, n_prcp>>, rows) :
            rows \in SeqsUpTo(RawRowsAvg, MaxStations)}
    \cup {CsvFile(<<upper(n_date), upper(n_prcp)>>,
                  <<<<TextCell("2025-10-01"), NumCell(Num(0))>>>>),
          CsvFile(<<upper(n_date), upper(n_tavg)>>,
                  <<<<TextCell("2025-10-01"), NumCell(Num(65))>>>>)}

(* <<daily weather file, raw station file>> *)
FewWeather ==
    {<<Absent, Absent>>,
     <<CsvFile(WeatherHeader,
               <<<<TextCell("2025-10-01"), NumCell(Num(70)), NumCell(Num(0))>>,
                 <<TextCell("2025-10-03"), NumCell(Num(64)), NumCell(Num(3))>>>>),
       Absent>>,
     <<Absent,
       CsvFile(<<upper(n_date), upper(n_tmax), upper(n_tmin), upper(n_prcp)>>,
               <<<<TextCell("2025-10-01"), NumCell(Num(80)), NumCell(Num(60)), NumCell(Num(0))>>,
                 <<TextCell("2025-10-01"), NumCell(Num(81)), NumCell(Num(60)), NumCell(Num(4))>>>>)>>}

RichWeather ==
    {<<w, Absent>> : w \in WeatherFiles} \cup {<<Absent, r>> : r \in RawFiles}
    \cup {<<Absent, Absent>>}

MgStart(orders, weather, old) ==
    /\ mg_pc = "start"
    /\ mg_at = "none"
    /\ mg_err = "none"
    /\ mg_disk = [p \in MgPaths |->
                    CASE p = "ORDERS_PATH" -> orders
                      [] p = "WEATHER_PATH" -> weather[1]
                      [] p = "RAW_WEATHER_PATH" -> weather[2]
                      [] p = "OUTPUT_PATH" -> old]
    /\ mg_disk0 = mg_disk
    /\ mg_daily = <<>>
    /\ mg_weather = <<>>
    /\ mg_merged = <<>>
    /\ sm_pc = "start"
    /\ sm_df = <<>>
    /\ sm_out = NoSummary

(* Every order table without weather; a few order tables with weather. *)
MgInitRevenue ==
    \E o \in RichOrders \cup FewOrders :
        \E w \in (IF o \in FewOrders THEN FewWeather ELSE {<<Absent, Absent>>}) :
            MgStart(o, w, Absent)

MgInitWeather ==
    \E o \in FewOrders, w \in RichWeather : MgStart(o, w, Absent)

MgInitFew ==
    \E o \in FewOrders, w \in FewWeather, old \in {Absent, MgStale} : MgStart(o, w, old)

MgFail(err) ==
    /\ mg_pc' = "failed"
    /\ mg_at' = mg_pc
    /\ mg_err' = err

MgRest == <<cbVars, anVars, nwVars>>

(* Lines 152-164: load_orders, the diagnostic report, daily aggregation. *)
MgLoadOrders ==
    /\ mg_pc = "start"
    /\ LET orders == load_orders(mg_disk["ORDERS_PATH"])
       IN IF orders.raised
          THEN MgFail("ValueError") /\ UNCHANGED mg_daily
          ELSE /\ mg_daily' = DailyRevenue(orders.rows)
               /\ mg_pc' = "prepare"
               /\ UNCHANGED <<mg_at, mg_err>>
    /\ UNCHANGED <<mg_disk, mg_disk0, mg_weather, mg_merged, smVars, MgRest>>

(* read_csv of the orders file raises an I/O error. *)
MgLoadOrdersFail ==
    /\ mg_pc = "start"
    /\ MgFail("IOError")
    /\ UNCHANGED <<mg_disk, mg_disk0, mg_daily, mg_weather, mg_merged, smVars, MgRest>>

(* Lines 166-167 with 88-132: derive and cache the daily weather file. *)
MgPrepareWeather ==
    /\ mg_pc = "prepare"
    /\ ~mg_disk["WEATHER_PATH"].exists /\ mg_disk["RAW_WEATHER_PATH"].exists
    /\ LET r == prepare_weather_from_raw(mg_disk["RAW_WEATHER_PATH"])
       IN IF r.err # "none"
          THEN MgFail(r.err) /\ UNCHANGED mg_disk
          ELSE \/ /\ mg_disk' = [mg_disk EXCEPT !["WEATHER_PATH"] = r.file]
                  /\ mg_pc' = "load"
                  /\ UNCHANGED <<mg_at, mg_err>>
               \/ /\ \E f \in FailedWrite(mg_disk["WEATHER_PATH"]) :
                        mg_disk' = [mg_disk EXCEPT !["WEATHER_PATH"] = f]
                  /\ MgFail("IOError")
    /\ UNCHANGED <<mg_disk0, mg_daily, mg_weather, mg_merged, smVars, MgRest>>

MgSkipPrepare ==
    /\ mg_pc = "prepare"
    /\ ~(~mg_disk["WEATHER_PATH"].exists /\ mg_disk["RAW_WEATHER_PATH"].exists)
    /\ mg_pc' = "load"
    /\ UNCHANGED <<mg_at, mg_err, mg_disk, mg_disk0, mg_daily, mg_weather, mg_merged,
                   smVars, MgRest>>

(* Lines 170-178: load the daily weather and left-join it. *)
MgMergeWeather ==
    /\ mg_pc = "load"
    /\ mg_disk["WEATHER_PATH"].exists
    /\ LET weather == load_weather(mg_disk["WEATHER_PATH"])
       IN IF weather.err # "none"
          THEN MgFail(weather.err) /\ UNCHANGED <<mg_weather, mg_merged>>
          ELSE /\ mg_weather' = weather.rows
               /\ mg_merged' = LeftMerge(mg_daily, weather.rows, Len(mg_daily))
               /\ mg_pc' = "write"
               /\ UNCHANGED <<mg_at, mg_err>>
    /\ UNCHANGED <<mg_disk, mg_disk0, mg_daily, smVars, MgRest>>

MgRevenueOnly_opens_output ==
    /\ mg_pc = "load"
    /\ ~mg_disk["WEATHER_PATH"].exists
    /\ mg_merged' = RevenueOnly(mg_daily)
    /\ mg_pc' = "write"
    /\ mg_disk' = [mg_disk EXCEPT !["OUTPUT_PATH"] = Truncated]
    /\ UNCHANGED <<mg_at, mg_err, mg_disk0, mg_daily, mg_weather, smVars, MgRest>>

(* Lines 179-186: no weather at all. *)
MgRevenueOnly ==
    /\ mg_pc = "load"
    /\ ~mg_disk["WEATHER_PATH"].exists
    /\ mg_merged' = RevenueOnly(mg_daily)
    /\ mg_pc' = "write"
    /\ UNCHANGED <<mg_at, mg_err, mg_disk, mg_disk0, mg_daily, mg_weather, smVars, MgRest>>

(* Lines 188-189: the merged table is written last. *)
MgWriteOutput ==
    /\ mg_pc = "write"
    /\ mg_disk' = [mg_disk EXCEPT !["OUTPUT_PATH"] = OutputFile(mg_merged)]
    /\ mg_pc' = "done"
    /\ UNCHANGED <<mg_at, mg_err, mg_disk0, mg_daily, mg_weather, mg_merged, smVars, MgRest>>

MgWriteOutputFail ==
    /\ mg_pc = "write"
    /\ \E f \in FailedWrite(mg_disk["OUTPUT_PATH"]) :
          mg_disk' = [mg_disk EXCEPT !["OUTPUT_PATH"] = f]
    /\ MgFail("IOError")
    /\ UNCHANGED <<mg_disk0, mg_daily, mg_weather, mg_merged, smVars, MgRest>>

(* summarize_revenue_weather.main, run on the merge stage's output. *)
SmLoad ==
    /\ mg_pc = "done"
    /\ sm_pc = "start"
    /\ sm_df' = load_data(mg_disk["OUTPUT_PATH"])
    /\ sm_pc' = "loaded"
    /\ UNCHANGED <<sm_out, mgVars, MgRest>>

SmRainSummary ==
    /\ sm_pc = "loaded"
    /\ sm_out' = rain_summary(sm_df)
    /\ sm_pc' = IF sm_out'.raised THEN "failed" ELSE "summarized"
    /\ UNCHANGED <<sm_df, mgVars, MgRest>>

MgNext ==
    \/ MgLoadOrders
    \/ MgLoadOrdersFail
    \/ MgPrepareWeather
    \/ MgSkipPrepare
    \/ MgMergeWeather
    \/ MgRevenueOnly
    \/ MgWriteOutput
    \/ MgWriteOutputFail
    \/ SmLoad
    \/ SmRainSummary

----------------------------------------------------------------------------
(* Revenue aggregation, weather and merge properties.                      *)

MgOrders == mg_disk0["ORDERS_PATH"]

(* The order rows whose date and total both parse. *)
ValidOrderRows ==
    {i \in DOMAIN MgOrders.rows :
        /\ ~to_datetime(Column(MgOrders, n_order_date)[i]).nat
        /\ ~to_numeric(Column(MgOrders, n_order_total)[i]).nan}

OrderDay(i) == dt_date(to_datetime(Column(MgOrders, n_order_date)[i]))

(* Sum of Order Total over the valid rows falling in `days`. *)
ValidTotal(days) ==
    NanSum([i \in DOMAIN MgOrders.rows |->
              IF i \in ValidOrderRows /\ OrderDay(i) \in days
              THEN to_numeric(Column(MgOrders, n_order_total)[i])
              ELSE Num(0)])

MgAggregated ==
    \/ mg_pc \in {"prepare", "load", "write", "done"}
    \/ mg_pc = "failed" /\ mg_at # "start"

\* C5: the revenues of the Daily Revenue rows sum to the Order Total of
\* exactly the rows whose date and total both parsed; unparsed rows add
\* nothing and no date; each date with a valid row has exactly one row, in
\* ascending date order.
C5_RevenueConservation ==
    MgAggregated =>
        /\ NanSum(FieldOf(mg_daily, "revenue")) = ValidTotal(1..31)
        /\ {mg_daily[k].date : k \in DOMAIN mg_daily} = {OrderDay(i) : i \in ValidOrderRows}
        /\ \A k \in DOMAIN mg_daily : mg_daily[k].revenue = ValidTotal({mg_daily[k].date})
        /\ \A k \in 1..(Len(mg_daily) - 1) : mg_daily[k].date < mg_daily[k + 1].date

C5_Witness ==
    /\ mg_pc = "prepare"
    /\ MgOrders.rows =
         <<<<TextCell("2025-10-01 09:30"), NumCell(Num(1000))>>,
           <<TextCell("2025-10-01 18:00"), NumCell(Num(500))>>,
           <<TextCell("2025-10-02"), TextCell("bad")>>>>
    /\ Len(mg_daily) = 1
    /\ mg_daily[1].date = 1
    /\ mg_daily[1].revenue = Num(1500)

MgWeatherFile == mg_disk["WEATHER_PATH"]

(* Two rows of the daily weather file share a calendar date in a column    *)
(* that a date alias names.                                                *)
WeatherFileSharesDate ==
    \E j \in DOMAIN MgWeatherFile.header, i1, i2 \in DOMAIN MgWeatherFile.rows :
        /\ lower(MgWeatherFile.header[j]) \in Range(WEATHER_COLUMN_ALIASES[1].aliases)
        /\ i1 # i2
        /\ ~to_datetime(MgWeatherFile.rows[i1][j]).nat
        /\ dt_date(to_datetime(MgWeatherFile.rows[i1][j]))
             = dt_date(to_datetime(MgWeatherFile.rows[i2][j]))

MgLoadTried ==
    \/ mg_pc \in {"write", "done"}
    \/ mg_pc = "failed" /\ mg_at \in {"load", "write"}

(* The run derived the daily weather file from the raw station file. *)
MgDerived ==
    /\ ~mg_disk0["WEATHER_PATH"].exists
    /\ mg_disk0["RAW_WEATHER_PATH"].exists
    /\ \/ mg_pc \in {"load", "write", "done"}
       \/ mg_pc = "failed" /\ mg_at \in {"load", "write"}

RawDays ==
    LET raw == mg_disk0["RAW_WEATHER_PATH"]
    IN {dt_date(to_datetime(raw.rows[i][1])) : i \in DOMAIN raw.rows} \ {0}

\* C6: the Weather Normalizer never emits two rows with one date:
\* load_weather raises a validation error whenever two rows of the file share
\* a calendar date (time of day discarded) and otherwise returns pairwise
\* distinct dates; prepare_weather_from_raw writes one row per date.
C6_WeatherUniqueness ==
    /\ ~HasDuplicateDates(mg_weather)
    /\ (MgLoadTried /\ MgWeatherFile.exists /\ WeatherFileSharesDate)
          => (mg_pc = "failed" /\ mg_at = "load" /\ mg_err = "ValueError")
    /\ MgDerived =>
          /\ Len(MgWeatherFile.rows) = Cardinality(RawDays)
          /\ {MgWeatherFile.rows[i][1] : i \in DOMAIN MgWeatherFile.rows}
                = {DateCell(d) : d \in RawDays}

C6_Witness ==
    /\ mg_pc = "failed" /\ mg_at = "load" /\ mg_err = "ValueError"
    /\ Len(MgWeatherFile.rows) = 2
    /\ MgWeatherFile.rows[1][1] = TextCell("2025-10-01")
    /\ MgWeatherFile.rows[2][1] = TextCell("2025-10-01 18:00")

C6_WitnessDerived ==
    /\ MgDerived
    /\ Len(mg_disk0["RAW_WEATHER_PATH"].rows) = 2
    /\ RawDays = {1}
    /\ Len(mg_weather) = 1

MgOutput == mg_disk["OUTPUT_PATH"]

\* C7: in every completed merge run the merged output holds each date of the
\* Daily Revenue series exactly once and no other date, and a row with no
\* matching weather observation has null temp and rain.
C7_MergeCompleteness ==
    mg_pc = "done" =>
        /\ FieldOf(mg_merged, "date") = FieldOf(mg_daily, "date")
        /\ Column(MgOutput, n_date) = [k \in DOMAIN mg_daily |-> DateCell(mg_daily[k].date)]
        /\ \A k \in DOMAIN mg_merged :
             (\A w \in Range(mg_weather) : w.date # mg_merged[k].date)
                => /\ Column(MgOutput, n_temp)[k] = EmptyCell
                   /\ Column(MgOutput, n_rain)[k] = EmptyCell

C7_Witness ==
    /\ mg_pc = "done"
    /\ Len(mg_daily) = 3
    /\ Len(mg_weather) = 2
    /\ Column(MgOutput, n_rain)[1] # EmptyCell
    /\ Column(MgOutput, n_rain)[3] = EmptyCell

C7_WitnessDerived ==
    /\ mg_pc = "done"
    /\ MgDerived
    /\ Len(mg_daily) = 3
    /\ Len(mg_weather) = 1

C7_WitnessNoWeather ==
    /\ mg_pc = "done"
    /\ ~MgWeatherFile.exists
    /\ Len(mg_merged) = 3

(* Mean revenue of the summarised rows whose rain is / is not above zero. *)
RainGroupMean(rainy) ==
    NanMean(FieldOf(SelectSeq(sm_df, LAMBDA r : GreaterThanZero(r.rain) = rainy), "revenue"))

\* C8: on every merged table the merge stage produced, rain_summary completes
\* without error and returns the mean revenue of the two groups "No Rain" and
\* "Rain", a day being in "Rain" exactly when its rain value is above zero.
C8_RainSummaryTwoGroups ==
    sm_pc \in {"summarized", "failed"} =>
        /\ ~sm_out.raised
        /\ sm_out.index = <<"No Rain", "Rain">>
        /\ sm_out.values = <<RainGroupMean(FALSE), RainGroupMean(TRUE)>>

\* C10 (as claimed): a failing run of either stage has created or modified
\* no file on disk.
C10_NoFileTouchedOnFailure ==
    /\ an_pc = "failed" => an_disk = an_disk0
    /\ mg_pc = "failed" => mg_disk = mg_disk0

\* C10 (amended): each stage writes its final output file last: until that
\* write, and in any run that fails before it, the final output file is as
\* it was before the run, the input files are never modified, and a
\* completed run leaves the whole table in the output file.
C10_FinalOutputWrittenLast ==
    /\ (an_pc \in {"start", "loop"}
           \/ (an_pc = "failed" /\ an_i <= Len(SENSITIVE_CATEGORICALS)))
          => an_disk["clean_path"] = an_disk0["clean_path"]
    /\ an_disk["raw_path"] = an_disk0["raw_path"]
    /\ an_pc = "done" => an_disk["clean_path"] = to_csv(an_df)
    /\ (mg_pc \in {"start", "prepare", "load", "write"}
           \/ (mg_pc = "failed" /\ mg_at # "write"))
          => mg_disk["OUTPUT_PATH"] = mg_disk0["OUTPUT_PATH"]
    /\ mg_disk["ORDERS_PATH"] = mg_disk0["ORDERS_PATH"]
    /\ mg_disk["RAW_WEATHER_PATH"] = mg_disk0["RAW_WEATHER_PATH"]
    /\ mg_pc = "done" => mg_disk["OUTPUT_PATH"] = OutputFile(mg_merged)

(* A failed anonymization run that had already written a mapping file. *)
C10_Witness ==
    /\ an_pc = "failed"
    /\ an_i = 2
    /\ an_disk0["item_mapping_path"] = Stale
    /\ Len(an_disk["item_mapping_path"].rows) = 2
    /\ an_disk["clean_path"] = an_disk0["clean_path"]

(* A failed merge run that had already written the derived weather file. *)
C10_WitnessMerge ==
    /\ mg_pc = "failed"
    /\ mg_at = "write"
    /\ ~mg_disk0["WEATHER_PATH"].exists
    /\ Len(mg_disk["WEATHER_PATH"].rows) = 1
    /\ mg_disk["OUTPUT_PATH"] = mg_disk0["OUTPUT_PATH"]

----------------------------------------------------------------------------
(* Specifications: each script is run on its own.                          *)

InitCodebook == CbInit /\ AnIdle /\ NwIdle /\ MgIdle
SpecCodebook == InitCodebook /\ [][CbNext]_vars

InitAnon == AnInit /\ CbIdle /\ NwIdle /\ MgIdle
SpecAnon == InitAnon /\ [][AnNext]_vars
InitNormalize == NwInit /\ CbIdle /\ AnIdle /\ MgIdle
SpecNormalize == InitNormalize /\ [][NwNext]_vars
InitRevenue == MgInitRevenue /\ CbIdle /\ AnIdle /\ NwIdle
SpecRevenue == InitRevenue /\ [][MgNext]_vars

InitMerge == MgInitWeather /\ CbIdle /\ AnIdle /\ NwIdle
SpecMerge == InitMerge /\ [][MgNext]_vars
InitStages ==
    /\ \/ AnInitOf(FewPii) /\ MgIdle
       \/ MgInitFew /\ AnIdle
    /\ CbIdle
    /\ NwIdle
SpecStages == InitStages /\ [][AnNext \/ MgNext]_vars
====
